---- MODULE Spec2Model ----
(***************************************************************************)
(* Train reservation simulator (src/main.cpp): MAX_THREADS worker threads  *)
(* issue inquiries, bookings and cancellations against MAX_TRAINS seat     *)
(* counters.  A counting gate (access_mutex + access_cond +                *)
(* active_access_count) admits at most MAX_CONCURRENT_ACCESS workers; each *)
(* train has its own mutex; console output is serialised by print_mutex.   *)
(*                                                                         *)
(* One action per statement that touches shared state.  A lock_guard /     *)
(* unique_lock is an owner field (NONE = unlocked) that is taken where the *)
(* guard object is constructed and given back where its C++ scope ends.    *)
(* The configuration macros keep their names but are scaled down so that   *)
(* the state space is finite and small.                                    *)
(*                                                                         *)
(* train_num and type are thread-local results of rand() (lines 62-63)     *)
(* that no other thread can read.  Each is drawn in the step before its    *)
(* first use (line 95 for train_num, line 100 for type) and holds UNSET    *)
(* until then; the values a worker can act on are the same.  type goes     *)
(* back to UNSET after its last read (the switch), train_num when          *)
(* train_lock is destroyed.                                                *)
(***************************************************************************)
EXTENDS Integers, FiniteSets, Sequences, TLC

\* ---- configuration (main.cpp:12-19), scaled down ----
MAX_TRAINS == 3
CAPACITY == 1
BOOK_MIN == 1
BOOK_MAX == 2
MAX_THREADS == 3
MAX_CONCURRENT_ACCESS == 2
MAX_TIME == 1

Workers == 1..MAX_THREADS
Trains == 0..(MAX_TRAINS - 1)
Types == 1..3
NONE == 0
UNSET == -1

VARIABLES
    pc,                  \* position of every worker in worker_thread
    train_num,           \* worker local: target train of this iteration
    type,                \* worker local: 1 inquiry, 2 booking, 3 cancellation
    num_to_book,         \* worker local of case 2, kept while outcome stands
    booked_seats,        \* worker local of case 3's block, 0 outside it
    outcome,             \* line the switch wrote to cout, until line 139
    available_seats,     \* int available_seats[MAX_TRAINS]
    train_mutex,         \* owner of train_mutex[i]
    access_mutex,        \* owner of access_mutex
    print_mutex,         \* owner of print_mutex
    active_access_count, \* int active_access_count
    elapsed,             \* minutes since the workers took their start stamp
    main_pc,             \* position of main()
    main_i               \* loop index of main's final chart

vars == <<pc, train_num, type, num_to_book, booked_seats, outcome,
          available_seats, train_mutex, access_mutex, print_mutex,
          active_access_count, elapsed, main_pc, main_i>>

workerLocals == <<train_num, type, num_to_book, booked_seats, outcome>>
locks == <<train_mutex, access_mutex, print_mutex>>
mainVars == <<main_pc, main_i>>

PcValues ==
    {"idle", "print_waiting", "lock_access", "wait_check", "waiting",
     "woken", "recheck", "print_gained", "lock_train", "lock_print", "apply", "book_sub",
     "cancel_add", "lock_release", "decrement", "notify", "unlock_print",
     "unlock_train", "done"}

Outcomes == {"none", "inquiry", "booked", "failed", "cancelled", "nothing"}

\* threads blocked inside access_cond.wait
Waiters == {w \in Workers : pc[w] = "waiting"}

\* ---- pure helpers ----

\* get_random_bookings: every value rand() % (BOOK_MAX-BOOK_MIN+1) + BOOK_MIN can take
BookQuantities == BOOK_MIN..BOOK_MAX

\* variant: the gate admits one worker too many
GatePredicate_OffByOne(count) == count <= MAX_CONCURRENT_ACCESS

\* the wait predicate of access_cond.wait
GatePredicate(count) == count < MAX_CONCURRENT_ACCESS

\* variant: the test only asks whether any seat is left
CanBook_AnySeat(avail, qty) == avail > 0

\* variant: the test demands one seat more than requested
CanBook_Strict(avail, qty) == avail > qty

\* the test guarding the subtraction in case 2
CanBook(avail, qty) == avail >= qty

\* variant: rand() % (booked_seats + 1) + 1
CancelAmounts_OffByOne(booked) == 1..(booked + 1)

\* every value rand() % booked_seats + 1 can take
CancelAmounts(booked) == 1..booked

\* variant: a train with nothing booked passes the test
HasBookings_OrNone(booked) == booked >= 0

\* the test guarding the addition in case 3
HasBookings(booked) == booked > 0

\* variant: the increment is lost
Claimed_Lost(count) == count

\* active_access_count++ and active_access_count--
Claimed(count) == count + 1

\* variant: the release gives back two slots
Released_Twice(count) == count - 2

\* variant: the release gives nothing back
Released_Noop(count) == count

Released(count) == count - 1

\* variant: minutes compared with seconds, the deadline is never seen
DeadlinePassed_WrongUnit(e) == e >= MAX_TIME * 60

\* variant: the test fires one tick early
DeadlinePassed_Early(e) == e >= MAX_TIME - 1

\* the deadline test at the top of the loop
DeadlinePassed(e) == e >= MAX_TIME

Init ==
    /\ pc = [w \in Workers |-> "idle"]
    /\ train_num = [w \in Workers |-> UNSET]
    /\ type = [w \in Workers |-> UNSET]
    /\ num_to_book = [w \in Workers |-> 0]
    /\ booked_seats = [w \in Workers |-> 0]
    /\ outcome = [w \in Workers |-> "none"]
    /\ available_seats = [t \in Trains |-> CAPACITY]
    /\ train_mutex = [t \in Trains |-> NONE]
    /\ access_mutex = NONE
    /\ print_mutex = NONE
    /\ active_access_count = 0
    /\ elapsed = 0
    /\ main_pc = "join"
    /\ main_i = 0

\* ---- worker_thread ----

\* lines 61-70: think time, then the deadline check
Generate(w) ==
    /\ pc[w] = "idle"
    /\ IF DeadlinePassed(elapsed)
         THEN pc' = [pc EXCEPT ![w] = "done"]
         ELSE pc' = [pc EXCEPT ![w] = "print_waiting"]
    /\ UNCHANGED <<workerLocals, available_seats, locks, active_access_count,
                   elapsed, mainVars>>

\* print_query (lines 47-54): lock print_mutex, write one line, unlock
PrintQuery(w, from, to) ==
    /\ pc[w] = from
    /\ print_mutex = NONE
    /\ pc' = [pc EXCEPT ![w] = to]
    /\ UNCHANGED <<type, num_to_book, booked_seats, outcome, available_seats,
                   locks, active_access_count, elapsed, mainVars>>

\* line 74
PrintWaiting(w) ==
    /\ PrintQuery(w, "print_waiting", "lock_access")
    /\ UNCHANGED train_num

\* line 77: unique_lock load_lock(access_mutex)
LockAccess(w) ==
    /\ pc[w] = "lock_access"
    /\ access_mutex = NONE
    /\ access_mutex' = w
    /\ pc' = [pc EXCEPT ![w] = "wait_check"]
    /\ UNCHANGED <<workerLocals, available_seats, train_mutex, print_mutex,
                   active_access_count, elapsed, mainVars>>

\* lines 80-88, the body of access_cond.wait(load_lock, pred) run by the
\* owner of access_mutex: when the predicate holds the wait returns, the
\* slot is claimed and load_lock's scope ends; otherwise the wait releases
\* access_mutex and blocks, atomically
WaitBody(w, at) ==
    /\ pc[w] = at
    /\ access_mutex = w
    /\ IF GatePredicate(active_access_count)
         THEN /\ active_access_count' = Claimed(active_access_count)
              /\ pc' = [pc EXCEPT ![w] = "print_gained"]
         ELSE /\ pc' = [pc EXCEPT ![w] = "waiting"]
              /\ UNCHANGED active_access_count
    /\ access_mutex' = NONE
    /\ UNCHANGED <<workerLocals, available_seats, train_mutex, print_mutex,
                   elapsed, mainVars>>

\* first evaluation of the predicate, on entry to the wait
WaitCheck(w) == WaitBody(w, "wait_check")

\* a condition variable may wake a waiter without any notify
SpuriousWake(w) ==
    /\ pc[w] = "waiting"
    /\ pc' = [pc EXCEPT ![w] = "woken"]
    /\ UNCHANGED <<workerLocals, available_seats, locks, active_access_count,
                   elapsed, mainVars>>

\* line 80: a woken waiter takes access_mutex again before it re-tests
Reacquire(w) ==
    /\ pc[w] = "woken"
    /\ access_mutex = NONE
    /\ access_mutex' = w
    /\ pc' = [pc EXCEPT ![w] = "recheck"]
    /\ UNCHANGED <<workerLocals, available_seats, train_mutex, print_mutex,
                   active_access_count, elapsed, mainVars>>

\* the predicate evaluated again after a wake-up
Recheck(w) == WaitBody(w, "recheck")

\* line 90; train_num = get_random_train() (lines 39-41, 62) is used next
PrintGained(w) ==
    /\ PrintQuery(w, "print_gained", "lock_train")
    /\ \E t \in Trains : train_num' = [train_num EXCEPT ![w] = t]

\* variant: the lock is taken without waiting for its holder
LockTrain_NoWait(w) ==
    /\ pc[w] = "lock_train"
    /\ train_mutex' = [train_mutex EXCEPT ![train_num[w]] = w]
    /\ pc' = [pc EXCEPT ![w] = "lock_print"]
    /\ UNCHANGED <<workerLocals, available_seats, access_mutex, print_mutex,
                   active_access_count, elapsed, mainVars>>

\* line 95: lock_guard train_lock(train_mutex[train_num])
LockTrain(w) ==
    /\ pc[w] = "lock_train"
    /\ train_mutex[train_num[w]] = NONE
    /\ train_mutex' = [train_mutex EXCEPT ![train_num[w]] = w]
    /\ pc' = [pc EXCEPT ![w] = "lock_print"]
    /\ UNCHANGED <<workerLocals, available_seats, access_mutex, print_mutex,
                   active_access_count, elapsed, mainVars>>

\* line 98: lock_guard print_lock(print_mutex); type = rand() % 3 + 1
\* (line 63) is used next
LockPrint(w) ==
    /\ pc[w] = "lock_print"
    /\ print_mutex = NONE
    /\ print_mutex' = w
    /\ \E ty \in Types : type' = [type EXCEPT ![w] = ty]
    /\ pc' = [pc EXCEPT ![w] = "apply"]
    /\ UNCHANGED <<train_num, num_to_book, booked_seats, outcome,
                   available_seats, train_mutex, access_mutex,
                   active_access_count, elapsed, mainVars>>

\* the switch is left: `line` has been written to cout and type is not read
\* again in this iteration
EndSwitch(w, line) ==
    /\ outcome' = [outcome EXCEPT ![w] = line]
    /\ type' = [type EXCEPT ![w] = UNSET]
    /\ pc' = [pc EXCEPT ![w] = "lock_release"]

\* lines 101-105: case 1
Inquire(w) ==
    /\ pc[w] = "apply"
    /\ type[w] = 1
    /\ EndSwitch(w, "inquiry")
    /\ UNCHANGED <<train_num, num_to_book, booked_seats, available_seats,
                   locks, active_access_count, elapsed, mainVars>>

\* lines 107-108 and 113-115: draw the quantity and test it
BookCheck(w) ==
    /\ pc[w] = "apply"
    /\ type[w] = 2
    /\ \E q \in BookQuantities :
          /\ num_to_book' = [num_to_book EXCEPT ![w] = q]
          /\ IF CanBook(available_seats[train_num[w]], q)
               THEN /\ pc' = [pc EXCEPT ![w] = "book_sub"]
                    /\ UNCHANGED <<outcome, type>>
               ELSE EndSwitch(w, "failed")
    /\ UNCHANGED <<train_num, booked_seats, available_seats, locks,
                   active_access_count, elapsed, mainVars>>

\* variant: the booking is reported but the subtraction is lost
BookSub_LostWrite(w) ==
    /\ pc[w] = "book_sub"
    /\ EndSwitch(w, "booked")
    /\ UNCHANGED <<train_num, num_to_book, booked_seats, available_seats,
                   locks, active_access_count, elapsed, mainVars>>

\* variant: the subtraction lands on the neighbouring train
BookSub_WrongIndex(w) ==
    /\ pc[w] = "book_sub"
    /\ available_seats' = [available_seats EXCEPT
                              ![(train_num[w] + 1) % MAX_TRAINS] =
                                  @ - num_to_book[w]]
    /\ EndSwitch(w, "booked")
    /\ UNCHANGED <<train_num, num_to_book, booked_seats, locks,
                   active_access_count, elapsed, mainVars>>

\* lines 109-112: available_seats[train_num] -= num_to_book
BookSub(w) ==
    /\ pc[w] = "book_sub"
    /\ available_seats' = [available_seats EXCEPT
                              ![train_num[w]] = @ - num_to_book[w]]
    /\ EndSwitch(w, "booked")
    /\ UNCHANGED <<train_num, num_to_book, booked_seats, locks,
                   active_access_count, elapsed, mainVars>>

\* lines 119-120 and 126-129: booked_seats = CAPACITY - available_seats[train_num]
CancelCheck(w) ==
    /\ pc[w] = "apply"
    /\ type[w] = 3
    /\ LET b == CAPACITY - available_seats[train_num[w]] IN
          IF HasBookings(b)
            THEN /\ booked_seats' = [booked_seats EXCEPT ![w] = b]
                 /\ pc' = [pc EXCEPT ![w] = "cancel_add"]
                 /\ UNCHANGED <<outcome, type>>
            ELSE /\ EndSwitch(w, "nothing")
                 /\ UNCHANGED booked_seats
    /\ UNCHANGED <<train_num, num_to_book, available_seats, locks,
                   active_access_count, elapsed, mainVars>>

\* lines 121-125: available_seats[train_num] += rand() % booked_seats + 1
CancelAdd(w) ==
    /\ pc[w] = "cancel_add"
    /\ \E n \in CancelAmounts(booked_seats[w]) :
          available_seats' = [available_seats EXCEPT ![train_num[w]] = @ + n]
    /\ booked_seats' = [booked_seats EXCEPT ![w] = 0]
    /\ EndSwitch(w, "cancelled")
    /\ UNCHANGED <<train_num, num_to_book, locks, active_access_count,
                   elapsed, mainVars>>

\* line 139: lock_guard release_lock(access_mutex); the switch's output and
\* the quantity it drew are behind the worker
LockRelease(w) ==
    /\ pc[w] = "lock_release"
    /\ access_mutex = NONE
    /\ access_mutex' = w
    /\ outcome' = [outcome EXCEPT ![w] = "none"]
    /\ num_to_book' = [num_to_book EXCEPT ![w] = 0]
    /\ pc' = [pc EXCEPT ![w] = "decrement"]
    /\ UNCHANGED <<train_num, type, booked_seats, available_seats, train_mutex,
                   print_mutex, active_access_count, elapsed, mainVars>>

\* lines 140-141: active_access_count--, then release_lock's scope ends
Decrement(w) ==
    /\ pc[w] = "decrement"
    /\ access_mutex = w
    /\ active_access_count' = Released(active_access_count)
    /\ access_mutex' = NONE
    /\ pc' = [pc EXCEPT ![w] = "notify"]
    /\ UNCHANGED <<workerLocals, available_seats, train_mutex, print_mutex,
                   elapsed, mainVars>>

\* variant: the notification is dropped
Notify_NoWake(w) ==
    /\ pc[w] = "notify"
    /\ pc' = [pc EXCEPT ![w] = "unlock_print"]
    /\ UNCHANGED <<workerLocals, available_seats, locks, active_access_count,
                   elapsed, mainVars>>

\* line 144: access_cond.notify_one() wakes one blocked waiter, if there is one
Notify(w) ==
    /\ pc[w] = "notify"
    /\ IF Waiters = {}
         THEN pc' = [pc EXCEPT ![w] = "unlock_print"]
         ELSE \E v \in Waiters :
                 pc' = [pc EXCEPT ![w] = "unlock_print", ![v] = "woken"]
    /\ UNCHANGED <<workerLocals, available_seats, locks, active_access_count,
                   elapsed, mainVars>>

\* variant: the console lock is never given back
UnlockPrint_Leak(w) ==
    /\ pc[w] = "unlock_print"
    /\ pc' = [pc EXCEPT ![w] = "unlock_train"]
    /\ UNCHANGED <<workerLocals, available_seats, locks, active_access_count,
                   elapsed, mainVars>>

\* line 147: the loop body's scope ends and its lock_guards are destroyed in
\* reverse order of construction: print_lock (line 98) first
UnlockPrint(w) ==
    /\ pc[w] = "unlock_print"
    /\ print_mutex' = NONE
    /\ pc' = [pc EXCEPT ![w] = "unlock_train"]
    /\ UNCHANGED <<workerLocals, available_seats, train_mutex, access_mutex,
                   active_access_count, elapsed, mainVars>>

\* variant: the iteration ends without giving the train lock back
UnlockTrain_Leak(w) ==
    /\ pc[w] = "unlock_train"
    /\ train_num' = [train_num EXCEPT ![w] = UNSET]
    /\ pc' = [pc EXCEPT ![w] = "idle"]
    /\ UNCHANGED <<type, num_to_book, booked_seats, outcome, available_seats,
                   locks, active_access_count, elapsed, mainVars>>

\* line 147: then train_lock (line 95); the iteration's locals end with it
UnlockTrain(w) ==
    /\ pc[w] = "unlock_train"
    /\ train_mutex' = [train_mutex EXCEPT ![train_num[w]] = NONE]
    /\ train_num' = [train_num EXCEPT ![w] = UNSET]
    /\ pc' = [pc EXCEPT ![w] = "idle"]
    /\ UNCHANGED <<type, num_to_book, booked_seats, outcome, available_seats,
                   access_mutex, print_mutex, active_access_count, elapsed,
                   mainVars>>

\* steady_clock advances; only the value compared at line 68 matters
Tick ==
    /\ elapsed < MAX_TIME
    /\ elapsed' = elapsed + 1
    /\ UNCHANGED <<pc, workerLocals, available_seats, locks,
                   active_access_count, mainVars>>

\* ---- main ----

\* lines 164-166: join every worker
JoinAll ==
    /\ main_pc = "join"
    /\ \A w \in Workers : pc[w] = "done"
    /\ main_pc' = "report"
    /\ UNCHANGED <<pc, workerLocals, available_seats, locks,
                   active_access_count, elapsed, main_i>>

\* lines 170-175: print the chart one train at a time, then return
Report ==
    /\ main_pc = "report"
    /\ IF main_i < MAX_TRAINS
         THEN /\ main_i' = main_i + 1
              /\ UNCHANGED main_pc
         ELSE /\ main_pc' = "exit"
              /\ UNCHANGED main_i
    /\ UNCHANGED <<pc, workerLocals, available_seats, locks,
                   active_access_count, elapsed>>

\* one statement of worker w's program; a spurious wake-up is the
\* environment's step, not the program's
ProgramStep(w) ==
    \/ Generate(w)
    \/ PrintWaiting(w)
    \/ LockAccess(w)
    \/ WaitCheck(w)
    \/ Reacquire(w)
    \/ Recheck(w)
    \/ PrintGained(w)
    \/ LockTrain(w)
    \/ LockPrint(w)
    \/ Inquire(w)
    \/ BookCheck(w)
    \/ BookSub(w)
    \/ CancelCheck(w)
    \/ CancelAdd(w)
    \/ LockRelease(w)
    \/ Decrement(w)
    \/ Notify(w)
    \/ UnlockPrint(w)
    \/ UnlockTrain(w)

Next ==
    \/ \E w \in Workers : ProgramStep(w)
    \/ \E w \in Workers : SpuriousWake(w)
    \/ Tick
    \/ JoinAll
    \/ Report

Spec == Init /\ [][Next]_vars

\* Fair scheduling: the clock advances, main runs, and a thread whose next
\* statement is enabled again and again (a contended mutex that keeps being
\* released) eventually executes it.  Spurious wake-ups are never owed.
FairSpec ==
    /\ Spec
    /\ WF_vars(Tick)
    /\ WF_vars(JoinAll \/ Report)
    /\ \A w \in Workers : SF_vars(ProgramStep(w))

\* ---- properties ----

\* worker w owns some train_mutex[i]
HoldsTrainLock(w) == \E t \in Trains : train_mutex[t] = w

\* worker w has incremented active_access_count and not yet decremented it
HoldsSlot(w) ==
    pc[w] \in {"print_gained", "lock_train", "lock_print", "apply", "book_sub",
               "cancel_add", "lock_release", "decrement"}

\* w's step leaves position p
Leaves(w, p) == pc[w] = p /\ pc'[w] # p

\* C1: at most MAX_CONCURRENT_ACCESS workers hold a train lock at any instant
C1_LockHoldersWithinGate ==
    Cardinality({w \in Workers : HoldsTrainLock(w)}) <= MAX_CONCURRENT_ACCESS

\* C2: a worker that holds a train lock still holds its gate slot (the train
\* lock is given back before active_access_count is decremented)
C2_TrainLockInsideSlot ==
    \A w \in Workers : HoldsTrainLock(w) => HoldsSlot(w)

\* C3: 0 <= active_access_count <= MAX_CONCURRENT_ACCESS
C3_GateBounds ==
    /\ active_access_count >= 0
    /\ active_access_count <= MAX_CONCURRENT_ACCESS

\* a woken waiter re-tests the predicate while the gate is full
C3_Witness ==
    /\ active_access_count = MAX_CONCURRENT_ACCESS
    /\ \E w \in Workers : pc[w] = "recheck"

\* C4: 0 <= available_seats[i] <= CAPACITY for every train
C4_QuotaBounds ==
    \A t \in Trains :
        available_seats[t] >= 0 /\ available_seats[t] <= CAPACITY

\* one train is sold out while a cancellation has just refilled another
C4_Witness ==
    /\ \E t \in Trains : available_seats[t] = 0
    /\ \E w \in Workers :
          /\ outcome[w] = "cancelled"
          /\ available_seats[train_num[w]] = CAPACITY

\* C5: when a worker's booking of q1 seats on train t takes effect while
\* another worker is in an operation on t, then for every quantity q2 with
\* available < q1 + q2 the other worker has not passed the test for q2 and
\* cannot pass it on the value the booking leaves: at most one of Book(q1),
\* Book(q2) succeeds
C5_BookAtomic ==
    [][\A w1 \in Workers : Leaves(w1, "book_sub") =>
          LET t == train_num[w1]
              q1 == num_to_book[w1]
              a == available_seats[t]
          IN  /\ a >= q1
              /\ \A w2 \in Workers \ {w1} :
                    (train_num[w2] = t /\ outcome[w2] = "none") =>
                       \A q2 \in BookQuantities :
                          a < q1 + q2 =>
                             /\ ~(pc[w2] = "book_sub" /\ num_to_book[w2] = q2)
                             /\ available_seats'[t] < q2
      ]_vars

\* a booking has succeeded while another worker waits for the same train,
\* and what is left is too little for any booking
C5_Witness ==
    \E w1, w2 \in Workers :
        /\ w1 # w2
        /\ outcome[w1] = "booked"
        /\ pc[w2] = "lock_train"
        /\ train_num[w2] = train_num[w1]
        /\ available_seats[train_num[w1]] < BOOK_MIN

\* C6: once the deadline has passed, every worker eventually reaches "done"
\* and main's join loop completes
C6_AllFinishAfterDeadline ==
    (elapsed >= MAX_TIME) ~>
        ((\A w \in Workers : pc[w] = "done") /\ main_pc # "join")

\* the deadline has passed while one worker sleeps at the gate and another
\* is blocked on a train lock
C6_Witness ==
    /\ elapsed >= MAX_TIME
    /\ \E w \in Workers : pc[w] = "waiting"
    /\ \E w \in Workers :
          pc[w] = "lock_train" /\ train_mutex[train_num[w]] # NONE

\* a waiter sleeps although a slot is free
SleepsAtOpenGate(w) ==
    pc[w] = "waiting" /\ active_access_count < MAX_CONCURRENT_ACCESS

C8_CountMatchesHolders ==
    active_access_count = Cardinality({w \in Workers : HoldsSlot(w)})

\* the gate is full, one holder is about to decrement, another worker waits
C8_Witness ==
    /\ active_access_count = MAX_CONCURRENT_ACCESS
    /\ \E w \in Workers : pc[w] = "decrement"
    /\ \E w \in Workers : pc[w] = "waiting"

\* C9: when a cancellation adds seats back, booked_seats still equals
\* CAPACITY - available_seats, the amount added lies in 1..booked_seats, and
\* available_seats does not exceed CAPACITY afterwards
C9_CancelAtomic ==
    [][\A w \in Workers : Leaves(w, "cancel_add") =>
          LET t == train_num[w]
              booked == CAPACITY - available_seats[t]
          IN  /\ booked_seats[w] = booked
              /\ booked > 0
              /\ (available_seats'[t] - available_seats[t]) \in 1..booked
              /\ available_seats'[t] <= CAPACITY
      ]_vars

\* a cancellation has been applied to a train that had seats booked
C9_Witness ==
    \E w \in Workers :
        /\ outcome[w] = "cancelled"
        /\ available_seats[train_num[w]] = CAPACITY

\* C10: a booking of q seats passes its test exactly when available >= q and
\* then lowers available by exactly q; otherwise it reports failure, and the
\* test itself changes no seat count
C10_BookOutcome ==
    [][\A w \in Workers :
          LET t == train_num[w]
              a == available_seats[t]
          IN  /\ (Leaves(w, "apply") /\ type[w] = 2) =>
                    /\ num_to_book'[w] \in BookQuantities
                    /\ available_seats' = available_seats
                    /\ IF a >= num_to_book'[w]
                         THEN pc'[w] = "book_sub" /\ outcome'[w] = "none"
                         ELSE pc'[w] = "lock_release" /\ outcome'[w] = "failed"
              /\ Leaves(w, "book_sub") =>
                    /\ available_seats'[t] = a - num_to_book[w]
                    /\ outcome'[w] = "booked"
      ]_vars

\* a booking has failed on a train that an earlier booking sold out
C10_Witness ==
    \E w \in Workers :
        /\ outcome[w] = "failed"
        /\ available_seats[train_num[w]] = 0
        /\ num_to_book[w] = BOOK_MIN

\* C11: a cancellation that finds available_seats = CAPACITY reports that
\* there is nothing to cancel and changes no seat count
C11_CancelNoop ==
    [][\A w \in Workers :
          (/\ Leaves(w, "apply")
           /\ type[w] = 3
           /\ available_seats[train_num[w]] = CAPACITY) =>
             /\ outcome'[w] = "nothing"
             /\ pc'[w] = "lock_release"
             /\ available_seats' = available_seats
      ]_vars

\* a cancellation has just found a full train
C11_Witness ==
    \E w \in Workers :
        /\ outcome[w] = "nothing"
        /\ available_seats[train_num[w]] = CAPACITY

\* worker w is inside the switch: it reads or writes available_seats
InApply(w) == pc[w] \in {"apply", "book_sub", "cancel_add"}

\* two workers are inside the switch at once, on different trains
OverlappingApply ==
    \E w1, w2 \in Workers :
        /\ w1 # w2
        /\ InApply(w1)
        /\ InApply(w2)
        /\ train_num[w1] # train_num[w2]

\* C12: operations on different trains proceed concurrently, bounded only by
\* the gate: a worker that holds a slot and its train's lock can enter the
\* apply step while another worker is inside the apply step on another
\* train (so that a state with both inside is reached)
C12_ConcurrentApply ==
    \A w1, w2 \in Workers :
        (/\ w1 # w2
         /\ InApply(w1)
         /\ pc[w2] = "lock_print"
         /\ train_num[w1] # train_num[w2]) => ENABLED LockPrint(w2)

\* what the code does instead: print_lock (line 98) is held across the
\* switch, so no two workers are ever inside it together
ApplySerialised == ~OverlappingApply

\* worker w has passed the deadline check and not yet finished the iteration
InFlight(w) == pc[w] \notin {"idle", "done"}

\* worker w is between iterations or finished, and holds nothing
AtRest(w) ==
    /\ ~InFlight(w)
    /\ ~HoldsSlot(w)
    /\ ~HoldsTrainLock(w)
    /\ access_mutex # w
    /\ print_mutex # w

\* the deadline check of worker w: past the deadline it finishes at once,
\* touching no lock and no gate count; before it, it starts an operation;
\* and nothing but the deadline check finishes a worker
DeadlineCheckStep(w) ==
    /\ Leaves(w, "idle") =>
          IF elapsed >= MAX_TIME
            THEN /\ pc'[w] = "done"
                 /\ locks' = locks
                 /\ active_access_count' = active_access_count
            ELSE pc'[w] = "print_waiting"
    /\ (pc'[w] = "done") => (pc[w] \in {"idle", "done"})
    /\ (pc[w] = "done") => (pc'[w] = "done")

\* C13: a worker whose deadline check sees the deadline passed goes
\* straight to done without taking the gate or a lock, and a worker that
\* passed the check always runs its iteration to the end (back at the top
\* of the loop, gate slot and locks released), whatever the clock does
\* meanwhile; only from there can it finish
C13_DeadlinePolicy ==
    /\ [][\A w \in Workers : DeadlineCheckStep(w)]_vars
    /\ \A w \in Workers : []<>AtRest(w)

\* the deadline has passed with one worker finished by its check while
\* another is still blocked on a train lock
C13_Witness ==
    /\ elapsed >= MAX_TIME
    /\ \E w \in Workers : pc[w] = "done"
    /\ \E w \in Workers :
          /\ pc[w] = "lock_train"
          /\ train_mutex[train_num[w]] # NONE

\* the main thread as a lock owner, distinct from every worker
MAIN == MAX_THREADS + 1

\* C14: the final report reads each train's available_seats while main
\* holds that train's lock, and only after every worker is done
C14_ReportUnderLock ==
    [][(main_pc = "report" /\ main_i' = main_i + 1) =>
          /\ train_mutex[main_i] = MAIN
          /\ \A w \in Workers : pc[w] = "done"
      ]_vars

\* the half of C14 the code does keep: the chart is printed only after
\* every worker is done
ReportAfterJoin ==
    (main_pc # "join") => \A w \in Workers : pc[w] = "done"

\* worker w has constructed train_lock (line 95) and not yet destroyed it
InTrainLockScope(w) ==
    pc[w] \in {"lock_print", "apply", "book_sub", "cancel_add", "lock_release",
               "decrement", "notify", "unlock_print", "unlock_train"}

\* at most one worker is inside the lock scope of any train, and a worker
\* inside the switch owns the lock of the train it works on
TrainLockExclusive ==
    /\ \A t \in Trains :
          Cardinality({w \in Workers :
                          InTrainLockScope(w) /\ train_num[w] = t}) <= 1
    /\ \A w \in Workers : InApply(w) => train_mutex[train_num[w]] = w

\* any change of a train's seats is made by a worker inside the switch that
\* owns that train's lock before and after the step, and a worker inside
\* the switch keeps its train and its lock from the check to the mutation
SeatsAccessedUnderLock ==
    /\ \A t \in Trains :
          (available_seats'[t] # available_seats[t]) =>
              \E w \in Workers :
                  /\ InApply(w)
                  /\ pc'[w] # pc[w]
                  /\ train_num[w] = t
                  /\ train_mutex[t] = w
                  /\ train_mutex'[t] = w
    /\ \A w \in Workers :
          InApply(w) =>
              /\ train_num'[w] = train_num[w]
              /\ train_mutex'[train_num[w]] = w

\* C15: at most one worker holds a given train's lock, and every read or
\* write of available_seats[i] by a worker, check and mutation together,
\* lies within one interval in which that worker holds train_mutex[i]
C15_TrainMutualExclusion ==
    /\ []TrainLockExclusive
    /\ [][SeatsAccessedUnderLock]_vars

\* a worker is between the check and the subtraction of a booking while
\* another worker is blocked on the same train's lock
C15_Witness ==
    \E w1, w2 \in Workers :
        /\ w1 # w2
        /\ pc[w1] = "book_sub"
        /\ pc[w2] = "lock_train"
        /\ train_num[w1] = train_num[w2]

\* worker w is requesting a train lock, or is between that request and the
\* end of its read or write of the train's seats
UsesTrain(w) ==
    pc[w] \in {"lock_train", "lock_print", "apply", "book_sub", "cancel_add"}

\* the slot is claimed on the step that lets a worker past the gate, a
\* train lock is requested only from there, and the count goes down only
\* by one, on the release step that follows the switch
SlotClaimedAndReleased ==
    /\ \A w \in Workers :
          /\ (pc'[w] = "print_gained" /\ pc[w] # "print_gained") =>
                active_access_count' = active_access_count + 1
          /\ (pc'[w] = "lock_train" /\ pc[w] # "lock_train") =>
                pc[w] = "print_gained"
    /\ (active_access_count' < active_access_count) =>
          /\ active_access_count' = active_access_count - 1
          /\ \E w \in Workers :
                /\ pc[w] = "decrement"
                /\ pc'[w] = "notify"
                /\ ~UsesTrain(w)

\* C16: a worker that is requesting a train lock or reading or mutating a
\* train's seats has incremented active_access_count and not yet
\* decremented it: the count covers every such worker
C16_SlotCoversOperation ==
    /\ [](Cardinality({w \in Workers : UsesTrain(w)}) <= active_access_count)
    /\ [][SlotClaimedAndReleased]_vars

\* the gate is full: one worker is inside the switch and another is
\* requesting a train lock
C16_Witness ==
    /\ active_access_count = MAX_CONCURRENT_ACCESS
    /\ \E w1, w2 \in Workers :
          /\ InApply(w1)
          /\ pc[w2] = "lock_train"

\* the train locks worker w owns, and the one it is blocked on if any
TrainLocksHeld(w) == {t \in Trains : train_mutex[t] = w}

TrainLocksRequested(w) ==
    IF pc[w] = "lock_train" THEN {train_num[w]} ELSE {}

\* C17: a worker requesting a train lock does not hold access_mutex, and no
\* worker holds or requests two train locks at the same time
C17_LockOrdering ==
    \A w \in Workers :
        /\ (pc[w] = "lock_train") => (access_mutex # w)
        /\ Cardinality(TrainLocksHeld(w)) + Cardinality(TrainLocksRequested(w))
              <= 1

\* a worker requests a train lock while a second owns access_mutex and a
\* third owns a train lock
C17_Witness ==
    \E w1, w2, w3 \in Workers :
        /\ pc[w1] = "lock_train"
        /\ access_mutex = w2
        /\ TrainLocksHeld(w3) # {}
        /\ w1 # w2
        /\ w1 # w3

\* every worker has left its loop
AllFinished == \A w \in Workers : pc[w] = "done"

\* C18: once every worker is done, every gate slot claimed has been given
\* back exactly once (active_access_count is 0) and no train lock, gate lock
\* or console lock is still owned
C18_PairedAtTermination ==
    AllFinished =>
        /\ active_access_count = 0
        /\ \A t \in Trains : train_mutex[t] = NONE
        /\ access_mutex = NONE
        /\ print_mutex = NONE

\* every worker is done after at least one booking went through the gate
C18_Witness ==
    /\ AllFinished
    /\ \E t \in Trains : available_seats[t] < CAPACITY

\* the frame of one step of worker w inside the switch: an inquiry changes
\* no train's seats, a booking or cancellation changes none but its own
OperationFrame(w) ==
    (InApply(w) /\ pc'[w] # pc[w]) =>
        IF type[w] = 1
          THEN available_seats' = available_seats
          ELSE \A j \in Trains \ {train_num[w]} :
                  available_seats'[j] = available_seats[j]

\* C19: an inquiry changes no train's available_seats, a booking or
\* cancellation on train i leaves every other train's available_seats
\* unchanged, and no step changes the set of trains
C19_Frame ==
    [][/\ \A w \in Workers : OperationFrame(w)
       /\ DOMAIN available_seats' = DOMAIN available_seats
       /\ DOMAIN available_seats' = Trains
      ]_vars

\* a booking has just been applied to one train while a second train is
\* already booked out and a third is untouched
C19_Witness ==
    \E w \in Workers : \E j, k \in Trains :
        /\ outcome[w] = "booked"
        /\ j # train_num[w]
        /\ k # train_num[w]
        /\ available_seats[j] = 0
        /\ available_seats[k] = CAPACITY

\* C20: across access_mutex with its condition variable, the train locks
\* and print_mutex, there is no state in which some worker is not done and
\* no worker can execute its next statement
C20_DeadlockFree ==
    (\E w \in Workers : pc[w] # "done") =>
        (\E w \in Workers : ENABLED ProgramStep(w))

\* all but one worker are blocked: one holds print_mutex and a train lock
\* and wants access_mutex, its owner is about to test the gate, and the
\* third wants the train lock of the first
C20_Witness ==
    \E w1, w2, w3 \in Workers :
        /\ pc[w1] = "lock_release"
        /\ print_mutex = w1
        /\ access_mutex = w2
        /\ pc[w2] \in {"wait_check", "recheck"}
        /\ pc[w3] = "lock_train"
        /\ train_mutex[train_num[w3]] = w1

TypeOK ==
    /\ pc \in [Workers -> PcValues]
    /\ train_num \in [Workers -> Trains \cup {UNSET}]
    /\ type \in [Workers -> Types \cup {UNSET}]
    /\ outcome \in [Workers -> Outcomes]
    /\ train_mutex \in [Trains -> Workers \cup {NONE}]
    /\ access_mutex \in Workers \cup {NONE}
    /\ print_mutex \in Workers \cup {NONE}
    /\ elapsed \in 0..MAX_TIME
====
